---- MODULE Spec2Model ----
(***************************************************************************)
(* Model of models/predictive_engine.py (class PredictiveEngine): the      *)
(* feature pipeline prepare_training_data, the model fit and prediction,   *)
(* and the two automations that write reorder rules and opportunity tags.  *)
(*                                                                         *)
(* Conventions.  A date is a number of days since 1970-01-01.  A DataFrame *)
(* is a sequence of records; the field idx is the row's index label.  A    *)
(* mean is kept exactly as the pair <<sum, count>>; demand_supply_ratio is *)
(* the pair <<q, s>> standing for q / (s + 1e-6).  NaN stands for a        *)
(* missing value (None / NaN) and <<>> for a missing pair.  A quantity     *)
(* multiplied by 1.2 or 1.5 is kept in tenths (x * 12, x * 15).            *)
(***************************************************************************)
EXTENDS Integers, Sequences, FiniteSets, TLC

VARIABLES
    today,          \* the run-time date, pd.to_datetime('today')
    sales,          \* rows of sale.order in state 'sale'
    quants,         \* rows of stock.quant
    qty_available,  \* product.product: id -> qty_available
    xmlTag,         \* id that sales_team.tag_sales_opportunity resolves to, or NaN
    orderpoints,    \* stock.warehouse.orderpoint records, in creation order
    messages,       \* chatter notes posted on products, in order
    tags,           \* ids of the res.partner.category records
    category_id,    \* product id -> set of tag ids linked to it
    pc,             \* position of the running call
    lookback_days,  \* argument of prepare_training_data
    raw_df,         \* the sales table returned by _extract_raw_data
    df,             \* the DataFrame being enriched
    columns,        \* the columns df has so far
    model,          \* the fitted regressor: <<lo, hi>> of its targets, or <<>>
    predictions,    \* the dict built by _generate_predictions
    todo,           \* products the current loop has still to visit
    tag,            \* local variable tag of _flag_sales_opportunities
    exc,            \* the exception in flight or caught, "none" if none
    result,         \* the string returned by the last call, "none" before
    done,           \* the stages of this run that have completed
    runs,           \* completed calls of generate_and_act_on_predictions
    pre             \* the write sink as it was when the running call began

vars == <<today, sales, quants, qty_available, xmlTag, orderpoints, messages,
          tags, category_id, pc, lookback_days, raw_df, df, columns, model,
          predictions, todo, tag, exc, result, done, runs, pre>>

envVars  == <<today, sales, quants, qty_available, xmlTag>>
sinkVars == <<orderpoints, messages, tags, category_id>>

\* ------------------------------------------------------------------ bounds
MaxRows == 3
MaxQuants == 2
MaxRuns == 2

\* ---------------------------------------------------------------- calendar
NaN == -9999

IsLeap(y) == (y % 4 = 0 /\ y % 100 # 0) \/ y % 400 = 0

DaysInMonth(y, m) ==
    IF m = 2 THEN (IF IsLeap(y) THEN 29 ELSE 28)
    ELSE IF m \in {4, 6, 9, 11} THEN 30 ELSE 31

\* proleptic Gregorian date -> days since 1970-01-01
DaysFromCivil(y0, m, d) ==
    LET y   == IF m <= 2 THEN y0 - 1 ELSE y0
        era == y \div 400
        yoe == y - era * 400
        mp  == IF m > 2 THEN m - 3 ELSE m + 9
        doy == (153 * mp + 2) \div 5 + d - 1
        doe == yoe * 365 + yoe \div 4 - yoe \div 100 + doy
    IN  era * 146097 + doe - 719468

\* days since 1970-01-01 -> [y, m, d]
CivilFromDays(z0) ==
    LET z   == z0 + 719468
        era == z \div 146097
        doe == z - era * 146097
        yoe == (doe - doe \div 1460 + doe \div 36524 - doe \div 146096) \div 365
        doy == doe - (365 * yoe + yoe \div 4 - yoe \div 100)
        mp  == (5 * doy + 2) \div 153
        d   == doy - (153 * mp + 2) \div 5 + 1
        m   == IF mp < 10 THEN mp + 3 ELSE mp - 9
        y   == yoe + era * 400 + (IF m <= 2 THEN 1 ELSE 0)
    IN  [y |-> y, m |-> m, d |-> d]

\* .dt.dayofweek, Monday = 0 (1970-01-01 was a Thursday)
DayOfWeek(z) == (z + 3) % 7
Month(z) == CivilFromDays(z).m
IsMonthEnd(z) ==
    LET c == CivilFromDays(z) IN IF c.d = DaysInMonth(c.y, c.m) THEN 1 ELSE 0

\* (pd.to_datetime('today') - pd.DateOffset(years=1)).date(): the same month
\* and day one year earlier, the day clipped to the length of that month
OneYearBefore(z) ==
    LET c  == CivilFromDays(z)
        dd == IF c.d > DaysInMonth(c.y - 1, c.m)
              THEN DaysInMonth(c.y - 1, c.m) ELSE c.d
    IN  DaysFromCivil(c.y - 1, c.m, dd)

\* ------------------------------------------------------------ data frames
\* pd.to_datetime(x).dt.date: a datetime (hours since the epoch) to its date
ToDate(dt) == dt \div 24

RECURSIVE SumOver(_, _)
SumOver(f, S) ==
    IF S = {} THEN 0
    ELSE LET x == CHOOSE y \in S : TRUE IN f[x] + SumOver(f, S \ {x})

\* the orders of s (as index permutations) that are ascending in date
Ascending(s) ==
    {p \in Permutations(1..Len(s)) :
        \A i \in 1..(Len(s) - 1) : s[p[i]].date <= s[p[i + 1]].date}

Reorder(s, p) == [i \in 1..Len(s) |-> s[p[i]]]

\* df.sort_values('date'): one key, default kind 'quicksort', which is not
\* stable: any ascending order of the rows may come out
SortsByDate(s) ==
    IF s = <<>> THEN {<<>>}
    ELSE {Reorder(s, p) : p \in Ascending(s)}

\* df.sort_values(['product_id', 'date']): several keys are sorted by a
\* stable lexsort, rows with equal keys keep their order
SortByProductDate(s) ==
    IF s = <<>> THEN <<>>
    ELSE LET Before(i, j) ==
                 \/ s[i].product_id < s[j].product_id
                 \/ s[i].product_id = s[j].product_id /\ s[i].date < s[j].date
                 \/ s[i].product_id = s[j].product_id /\ s[i].date = s[j].date
                    /\ i < j
             p == CHOOSE q \in Permutations(1..Len(s)) :
                     \A i \in 1..(Len(s) - 1) : Before(q[i], q[i + 1])
         IN  Reorder(s, p)

\* ------------------------------------------------- prepare_training_data
\* a row of pd.DataFrame(sales) with the columns the later stages add,
\* not yet filled
Frame(rows) ==
    [i \in 1..Len(rows) |->
        [idx |-> i - 1,
         date_order |-> rows[i].date_order,
         product_id |-> rows[i].product_id,
         product_uom_qty |-> rows[i].product_uom_qty,
         date |-> NaN, day_of_week |-> NaN, month |-> NaN, is_month_end |-> NaN,
         avg_sales_7d |-> <<>>, sales_growth_30d |-> <<>>,
         quantity |-> NaN, demand_supply_ratio |-> <<>>]]

\* _extract_raw_data: the two search_read results as DataFrames; the
\* stock.move table is read and never used afterwards
ExtractRawData(rows) == Frame(rows)

\* _clean_data: date from date_order, rows dated after today minus one
\* year, rows with a product and a quantity
CleanData(raw, now) ==
    LET dated == [i \in 1..Len(raw) |->
                     [raw[i] EXCEPT !.date = ToDate(raw[i].date_order)]]
        recent == SelectSeq(dated, LAMBDA r : r.date > OneYearBefore(now))
    IN  SelectSeq(recent, LAMBDA r : r.product_id # NaN
                                     /\ r.product_uom_qty # NaN)

\* _add_time_features
AddTimeFeatures(d) ==
    [i \in 1..Len(d) |->
        [d[i] EXCEPT !.day_of_week = DayOfWeek(d[i].date),
                     !.month = Month(d[i].date),
                     !.is_month_end = IsMonthEnd(d[i].date)]]

\* x.rolling(window='<w>D').mean() on the rows of one product in date
\* order: the rows at or before position i of the same product dated in
\* (date - w, date]
\* a window that also takes the rows after position i
RollingWindowLookahead(s, i, w) ==
    {j \in 1..Len(s) : s[j].product_id = s[i].product_id
                       /\ s[j].date > s[i].date - w}

RollingWindow(s, i, w) ==
    {j \in 1..i : s[j].product_id = s[i].product_id
                  /\ s[j].date > s[i].date - w}

RollingMean(s, i, w) ==
    LET win == RollingWindow(s, i, w)
    IN  <<SumOver([j \in win |-> s[j].product_uom_qty], win), Cardinality(win)>>

\* _add_rolling_features; window_days is not used by the code
AddRollingFeatures(d, window_days) ==
    LET s == SortByProductDate(d)
    IN  [i \in 1..Len(s) |->
            [s[i] EXCEPT !.avg_sales_7d = RollingMean(s, i, 7),
                         !.sales_growth_30d =
                             RollingMean(s, i, 30) \o RollingMean(s, i, 60)]]

\* pd.DataFrame(stock.quant rows) with date reduced to a calendar date
InventoryFrame(rows) ==
    [i \in 1..Len(rows) |->
        [idx |-> i - 1, product_id |-> rows[i].product_id,
         quantity |-> rows[i].quantity, date |-> ToDate(rows[i].date)]]

\* merge_asof(left, right, on='date', by='product_id', direction='backward')
\* for one left row: the last row of right, in its sorted order, of the same
\* product dated at or before the left row; 0 when there is none
\* a match that takes the last record of the product whatever its date
AsofMatchAnyDate(l, right) ==
    LET cand == {j \in 1..Len(right) : right[j].product_id = l.product_id}
    IN  IF cand = {} THEN 0 ELSE CHOOSE j \in cand : \A k \in cand : k <= j

AsofMatch(l, right) ==
    LET cand == {j \in 1..Len(right) :
                    right[j].product_id = l.product_id /\ right[j].date <= l.date}
    IN  IF cand = {} THEN 0 ELSE CHOOSE j \in cand : \A k \in cand : k <= j

MergeAsof(left, right) ==
    [i \in 1..Len(left) |->
        LET j == AsofMatch(left[i], right)
            q == IF j = 0 THEN NaN ELSE right[j].quantity
        IN  [left[i] EXCEPT
                !.idx = i - 1,
                !.quantity = q,
                !.demand_supply_ratio =
                    IF q = NaN THEN <<>> ELSE <<left[i].product_uom_qty, q>>]]

\* _add_inventory_features: the frames it can return, one per order the two
\* sorts can produce; df is returned as it is when stock.quant is empty
AddInventoryFeatures(d, inv) ==
    IF inv = <<>> THEN {d}
    ELSE {MergeAsof(l, r) : l \in SortsByDate(d),
                            r \in SortsByDate(InventoryFrame(inv))}

\* --------------------------------------------------------- fit and predict
TrainColumns == {"day_of_week", "month", "avg_sales_7d", "demand_supply_ratio"}

MinOf(S) == CHOOSE x \in S : \A y \in S : x <= y
MaxOf(S) == CHOOSE x \in S : \A y \in S : y <= x

\* RandomForestRegressor(n_estimators=50).fit(X, y): every prediction of a
\* forest is a mean of means of training targets, so it lies between the
\* smallest and the largest target; the model is kept as that interval
TrainModel(d) ==
    LET y == {d[i].product_uom_qty : i \in 1..Len(d)}
    IN  <<MinOf(y), MaxOf(y)>>

\* model.predict(input_data)[0]: the values the fitted forest can return
Predict(m) == m[1]..m[2]

\* df[df['product_id'] == product.id]
RowsOf(d, p) == SelectSeq(d, LAMBDA r : r.product_id = p)

\* predictions.get(product.id, 0)
Get(pred, p) == IF p \in DOMAIN pred THEN pred[p] ELSE 0

\* self.env['product.product'].search([]): the catalog in id order
RECURSIVE IdOrder(_)
IdOrder(S) ==
    IF S = {} THEN <<>>
    ELSE LET x == MinOf(S) IN <<x>> \o IdOrder(S \ {x})

Catalog == IdOrder(DOMAIN qty_available)

\* ------------------------------------------------------------ automations
\* self.env['stock.warehouse'].search([], limit=1).id
WarehouseId == 1

\* current_stock < predicted_demand
NeedsReorder(stock, demand) == stock < demand

\* the values of Alert.create: the quantities in tenths of a unit
ReorderRule(p, demand) ==
    [product_id |-> p, product_min_qty |-> demand * 12,
     product_max_qty |-> demand * 15, warehouse_id |-> WarehouseId]

\* product.message_post(body=...)
Note(p, demand) == [product_id |-> p, predicted_demand |-> demand]

\* a tag condition that is only looked at for a product that is reordered
IsOpportunityOfReorder(stock, demand) == stock < demand /\ 2 * demand > 3 * stock

\* predictions.get(product.id, 0) > product.qty_available * 1.5
IsOpportunity(stock, demand) == 2 * demand > 3 * stock

\* the id of a record created in res.partner.category
NewTagId(ts) == IF ts = {} THEN 1 ELSE MaxOf(ts) + 1

\* product.write({'category_id': [(4, tag.id)]}): link the tag, keep the rest
LinkTag(cats, p, t) == [cats EXCEPT ![p] = cats[p] \cup {t}]

Success == "Predictions and automations completed successfully"
\* f"Error: {str(e)}"
ErrorString(e) == "Error: " \o e

Sink == [orderpoints |-> orderpoints, messages |-> messages, tags |-> tags,
         category_id |-> category_id]

\* ---------------------------------------------------------------- actions
SalesColumns == {"id", "date_order", "product_id", "product_uom_qty", "price_unit"}

\* an exception leaves the running function
Raise(e) == pc' = "raised" /\ exc' = e

\* _extract_raw_data, called at line 13
Extract ==
    /\ pc = "extract"
    /\ \/ /\ raw_df' = ExtractRawData(sales)
          /\ columns' = IF sales = <<>> THEN {} ELSE SalesColumns
          /\ pc' = "clean"
          /\ done' = done \cup {"extract"}
          /\ exc' = exc
       \/ /\ Raise("AccessError")
          /\ UNCHANGED <<raw_df, columns, done>>
    /\ UNCHANGED <<envVars, sinkVars, lookback_days, df, model, predictions,
                   todo, tag, result, runs, pre>>

\* _clean_data, called at line 14; a DataFrame of no records has no
\* date_order column
Clean ==
    /\ pc = "clean"
    /\ IF "date_order" \notin columns
       THEN /\ Raise("KeyError")
            /\ UNCHANGED <<df, columns, done>>
       ELSE /\ df' = CleanData(raw_df, today)
            /\ columns' = columns \cup {"date"}
            /\ pc' = "time"
            /\ done' = done \cup {"clean"}
            /\ exc' = exc
    /\ UNCHANGED <<envVars, sinkVars, lookback_days, raw_df, model, predictions,
                   todo, tag, result, runs, pre>>

\* _add_time_features, called at line 15
TimeFeatures ==
    /\ pc = "time"
    /\ df' = AddTimeFeatures(df)
    /\ columns' = columns \cup {"day_of_week", "month", "is_month_end"}
    /\ pc' = "rolling"
    /\ done' = done \cup {"time"}
    /\ UNCHANGED <<envVars, sinkVars, lookback_days, raw_df, model, predictions,
                   todo, tag, exc, result, runs, pre>>

\* _add_rolling_features, called at line 16; the lambdas run once per
\* product group, and rolling(on=<a Series>) is refused by pandas versions
\* that accept only a column name or an index there
Rolling ==
    /\ pc = "rolling"
    /\ \/ /\ df' = AddRollingFeatures(df, lookback_days)
          /\ columns' = columns \cup {"avg_sales_7d", "sales_growth_30d"}
          /\ pc' = "inventory"
          /\ done' = done \cup {"rolling"}
          /\ exc' = exc
       \/ /\ df # <<>>
          /\ Raise("ValueError")
          /\ UNCHANGED <<df, columns, done>>
    /\ UNCHANGED <<envVars, sinkVars, lookback_days, raw_df, model, predictions,
                   todo, tag, result, runs, pre>>

\* _add_inventory_features, called at line 17; the read of stock.quant can
\* fail, and merge_asof can refuse the date keys
Inventory ==
    /\ pc = "inventory"
    /\ \/ /\ \E d \in AddInventoryFeatures(df, quants) : df' = d
          /\ columns' = IF quants = <<>> THEN columns
                        ELSE columns \cup {"quantity", "demand_supply_ratio"}
          /\ pc' = "prepared"
          /\ done' = done \cup {"inventory"}
          /\ exc' = exc
       \/ /\ \E e \in {"AccessError"} \cup
                      (IF quants = <<>> THEN {} ELSE {"MergeError"}) : Raise(e)
          /\ UNCHANGED <<df, columns, done>>
    /\ UNCHANGED <<envVars, sinkVars, lookback_days, raw_df, model, predictions,
                   todo, tag, result, runs, pre>>

DefaultLookback == 365

\* generate_and_act_on_predictions is called: line 103 calls
\* prepare_training_data with its default lookback
Call ==
    /\ pc = "idle"
    /\ runs < MaxRuns
    /\ pc' = "extract"
    /\ lookback_days' = DefaultLookback
    /\ pre' = Sink
    /\ done' = {}
    /\ exc' = "none"
    /\ result' = "none"
    /\ UNCHANGED <<envVars, sinkVars, raw_df, df, columns, model, predictions,
                   todo, tag, runs>>

\* _train_model, line 104, then the catalog search of line 126; a missing
\* feature column is a KeyError, no row a ValueError, and a NaN feature is
\* refused by the scikit-learn versions without missing-value support
Train ==
    /\ pc = "prepared"
    /\ IF ~(TrainColumns \subseteq columns)
       THEN Raise("KeyError") /\ UNCHANGED <<model, todo, predictions, done>>
       ELSE IF df = <<>>
       THEN Raise("ValueError") /\ UNCHANGED <<model, todo, predictions, done>>
       ELSE \/ /\ model' = TrainModel(df)
               /\ todo' = Catalog
               /\ predictions' = <<>>
               /\ pc' = "predict"
               /\ done' = done \cup {"train"}
               /\ exc' = exc
            \/ /\ \E i \in 1..Len(df) : df[i].demand_supply_ratio = <<>>
               /\ Raise("ValueError")
               /\ UNCHANGED <<model, todo, predictions, done>>
    /\ UNCHANGED <<envVars, sinkVars, lookback_days, raw_df, df, columns, tag,
                   result, runs, pre>>

\* one turn of the loop of _generate_predictions, lines 129-141
PredictStep ==
    /\ pc = "predict"
    /\ todo # <<>>
    /\ LET p == Head(todo) IN
       IF RowsOf(df, p) = <<>>
       THEN Raise("IndexError") /\ UNCHANGED <<predictions, todo>>
       ELSE /\ \E v \in Predict(model) : predictions' = (p :> v) @@ predictions
            /\ todo' = Tail(todo)
            /\ UNCHANGED <<pc, exc>>
    /\ UNCHANGED <<envVars, sinkVars, lookback_days, raw_df, df, columns, model,
                   tag, result, done, runs, pre>>

\* _generate_predictions returns, line 143; _trigger_inventory_alerts starts
PredictExit ==
    /\ pc = "predict"
    /\ todo = <<>>
    /\ pc' = "alerts"
    /\ todo' = Catalog
    /\ done' = done \cup {"predict"}
    /\ UNCHANGED <<envVars, sinkVars, lookback_days, raw_df, df, columns, model,
                   predictions, tag, exc, result, runs, pre>>

\* one turn of the loop of _trigger_inventory_alerts, lines 149-165; either
\* write can be refused
AlertStep ==
    /\ pc = "alerts"
    /\ todo # <<>>
    /\ LET p == Head(todo)
           predicted_demand == Get(predictions, p)
           current_stock == qty_available[p]
       IN  IF NeedsReorder(current_stock, predicted_demand)
           THEN \/ /\ orderpoints' = Append(orderpoints, ReorderRule(p, predicted_demand))
                   /\ messages' = Append(messages, Note(p, predicted_demand))
                   /\ todo' = Tail(todo)
                   /\ UNCHANGED <<pc, exc>>
                \/ /\ Raise("ValidationError")
                   /\ UNCHANGED <<orderpoints, messages, todo>>
                \/ /\ orderpoints' = Append(orderpoints, ReorderRule(p, predicted_demand))
                   /\ Raise("AccessError")
                   /\ UNCHANGED <<messages, todo>>
           ELSE /\ todo' = Tail(todo)
                /\ UNCHANGED <<orderpoints, messages, pc, exc>>
    /\ UNCHANGED <<envVars, tags, category_id, lookback_days, raw_df, df, columns,
                   model, predictions, tag, result, done, runs, pre>>

\* _trigger_inventory_alerts returns; _flag_sales_opportunities starts
AlertsExit ==
    /\ pc = "alerts"
    /\ todo = <<>>
    /\ pc' = "flag_tag"
    /\ done' = done \cup {"alerts"}
    /\ UNCHANGED <<envVars, sinkVars, lookback_days, raw_df, df, columns, model,
                   predictions, todo, tag, exc, result, runs, pre>>

\* lines 169-173: the tag is looked up by its XML id and created when the
\* id resolves to nothing; the created record gets no XML id
FlagTag ==
    /\ pc = "flag_tag"
    /\ IF xmlTag # NaN
       THEN /\ tag' = xmlTag
            /\ todo' = Catalog
            /\ pc' = "flag"
            /\ UNCHANGED <<tags, exc>>
       ELSE \/ /\ tag' = NewTagId(tags)
               /\ tags' = tags \cup {NewTagId(tags)}
               /\ todo' = Catalog
               /\ pc' = "flag"
               /\ exc' = exc
            \/ /\ Raise("AccessError")
               /\ UNCHANGED <<tag, tags, todo>>
    /\ UNCHANGED <<envVars, orderpoints, messages, category_id, lookback_days,
                   raw_df, df, columns, model, predictions, result, done, runs, pre>>

\* one turn of the loop of _flag_sales_opportunities, lines 175-179
FlagStep ==
    /\ pc = "flag"
    /\ todo # <<>>
    /\ LET p == Head(todo) IN
       IF IsOpportunity(qty_available[p], Get(predictions, p))
       THEN \/ /\ category_id' = LinkTag(category_id, p, tag)
               /\ todo' = Tail(todo)
               /\ UNCHANGED <<pc, exc>>
            \/ /\ Raise("AccessError")
               /\ UNCHANGED <<category_id, todo>>
       ELSE /\ todo' = Tail(todo)
            /\ UNCHANGED <<category_id, pc, exc>>
    /\ UNCHANGED <<envVars, orderpoints, messages, tags, lookback_days, raw_df, df,
                   columns, model, predictions, tag, result, done, runs, pre>>

\* the locals of a call that has ended
ClearLocals ==
    /\ raw_df' = <<>>
    /\ df' = <<>>
    /\ columns' = {}
    /\ model' = <<>>
    /\ predictions' = <<>>
    /\ todo' = <<>>
    /\ tag' = NaN

\* line 113: every stage is through, the success string is returned
Return ==
    /\ pc = "flag"
    /\ todo = <<>>
    /\ result' = Success
    /\ done' = done \cup {"flag"}
    /\ pc' = "idle"
    /\ runs' = runs + 1
    /\ ClearLocals
    /\ UNCHANGED <<envVars, sinkVars, lookback_days, exc, pre>>

\* a handler that catches the KeyError of a missing column only
CatchKeyError ==
    /\ pc = "raised"
    /\ exc = "KeyError"
    /\ result' = ErrorString(exc)
    /\ pc' = "idle"
    /\ runs' = runs + 1
    /\ ClearLocals
    /\ UNCHANGED <<envVars, sinkVars, lookback_days, exc, done, pre>>

\* lines 114-115: except Exception catches whatever a stage raised
Catch ==
    /\ pc = "raised"
    /\ result' = ErrorString(exc)
    /\ pc' = "idle"
    /\ runs' = runs + 1
    /\ ClearLocals
    /\ UNCHANGED <<envVars, sinkVars, lookback_days, exc, done, pre>>

\* _flag_sales_opportunities called on its own returns None after its loop
FlagReturn ==
    /\ pc = "flag"
    /\ todo = <<>>
    /\ pc' = "returned"
    /\ done' = done \cup {"flag"}
    /\ UNCHANGED <<envVars, sinkVars, lookback_days, raw_df, df, columns, model,
                   predictions, todo, tag, exc, result, runs, pre>>

\* ----------------------------------------------------------------- inputs
Products == {1, 2}

Today1 == DaysFromCivil(2024, 3, 1)
Today2 == DaysFromCivil(2023, 6, 15)

\* a sale.order row confirmed `age` days before `now`, at hour h
Sale(now, age, h, p, q) ==
    [date_order |-> (now - age) * 24 + h, product_id |-> p, product_uom_qty |-> q]

\* a stock.quant row dated `age` days before `now`, at hour h
Quant(now, age, h, p, q) ==
    [date |-> (now - age) * 24 + h, product_id |-> p, quantity |-> q]

SalesPalette(now) ==
    {Sale(now, 0, 9, 1, 2), Sale(now, 6, 23, 1, 4), Sale(now, 36, 0, 1, -1),
     Sale(now, 6, 5, 2, 3), Sale(now, 365, 1, 1, 4),
     Sale(now, 100, 3, 2, NaN), Sale(now, 3, 4, NaN, 2)}

QuantPalette(now) ==
    {Quant(now, 2, 0, 1, 5), Quant(now, 6, 12, 1, 0), Quant(now, 6, 20, 1, 3),
     Quant(now, 6, 3, 2, 9)}

Tables(palette, n) == UNION {[1..k -> palette] : k \in 0..n}

\* the tables over a palette up to the order of their rows, which the
\* sort of the table by date does not keep
Multisets(palette, n) ==
    {t \in Tables(palette, n) :
        \A i \in 1..(Len(t) - 1) :
            \/ t[i].date < t[i + 1].date
            \/ t[i].date = t[i + 1].date /\ t[i].quantity <= t[i + 1].quantity}

\* the days and lookbacks prepare_training_data is called on
PrepCalls == {<<Today1, 365>>, <<Today1, 30>>, <<Today2, 365>>}

NoSink ==
    /\ orderpoints = <<>>
    /\ messages = <<>>
    /\ category_id = [p \in DOMAIN qty_available |-> {}]
    /\ tags = IF xmlTag = NaN THEN {} ELSE {xmlTag}

NoCall ==
    /\ raw_df = <<>>
    /\ df = <<>>
    /\ columns = {}
    /\ model = <<>>
    /\ tag = NaN
    /\ exc = "none"
    /\ result = "none"
    /\ done = {}
    /\ runs = 0

\* prepare_training_data(lookback_days) called on its own
InitPrep ==
    /\ \E c \in PrepCalls : today = c[1] /\ lookback_days = c[2]
    /\ sales \in Tables(SalesPalette(today), MaxRows)
    /\ quants \in Multisets(QuantPalette(today), MaxQuants)
    /\ qty_available = [p \in Products |-> 0]
    /\ xmlTag = NaN
    /\ NoSink
    /\ NoCall
    /\ predictions = <<>>
    /\ todo = <<>>
    /\ pc = "extract"
    /\ pre = Sink

NextPrep == Extract \/ Clean \/ TimeFeatures \/ Rolling \/ Inventory

SpecPrep == InitPrep /\ [][NextPrep]_vars

\* ------------------------------------------- the automations on their own
ActProducts == {1, 2, 3, 4}
StockValues == {-2, 0, 2}
PredValues == {-2, 2, 3}

\* the dicts over some of the products
PredictionMaps(ps, vs) == UNION {[d -> vs] : d \in SUBSET ps}

\* _trigger_inventory_alerts(predictions) and then
\* _flag_sales_opportunities(predictions), called on a dict of the caller
InitAct ==
    /\ today = Today1
    /\ sales = <<>>
    /\ quants = <<>>
    /\ qty_available \in [ActProducts -> StockValues]
    /\ xmlTag \in {NaN, 1}
    /\ NoSink
    /\ NoCall
    /\ predictions \in PredictionMaps(ActProducts, PredValues)
    /\ todo = Catalog
    /\ lookback_days = DefaultLookback
    /\ pc = "alerts"
    /\ pre = Sink

NextAct == AlertStep \/ AlertsExit \/ FlagTag \/ FlagStep \/ FlagReturn

SpecAct == InitAct /\ [][NextAct]_vars

\* ------------------------------------------------------------ the full run
RunSales(now) ==
    {<<>>,
     <<Sale(now, 0, 9, 1, 1), Sale(now, 36, 0, 1, -1)>>,
     <<Sale(now, 36, 0, 1, -1), Sale(now, 6, 5, 2, 1)>>}

RunQuants(now) ==
    {<<>>,
     <<Quant(now, 6, 3, 2, 9)>>,
     <<Quant(now, 40, 12, 1, 0), Quant(now, 6, 3, 2, 9)>>}

RunStocks == {-2, 0, 2}

Init ==
    /\ today = Today1
    /\ sales \in RunSales(today)
    /\ quants \in RunQuants(today)
    /\ qty_available \in [Products -> RunStocks]
    /\ xmlTag \in {NaN, 1}
    /\ NoSink
    /\ NoCall
    /\ predictions = <<>>
    /\ todo = <<>>
    /\ lookback_days = DefaultLookback
    /\ pc = "idle"
    /\ pre = Sink

Next ==
    \/ Call
    \/ Extract \/ Clean \/ TimeFeatures \/ Rolling \/ Inventory
    \/ Train \/ PredictStep \/ PredictExit
    \/ AlertStep \/ AlertsExit \/ FlagTag \/ FlagStep
    \/ Return \/ Catch

Spec == Init /\ [][Next]_vars

\* ------------------------------------------------- claims on the pipeline
\* C4: once cleaning has run, every row kept is dated strictly after
\* today - lookback_days and has a product and a quantity.
C4_CleanKeepsOnlyLookback ==
    "clean" \in done =>
        \A i \in 1..Len(df) :
            /\ df[i].date > today - lookback_days
            /\ df[i].product_id # NaN
            /\ df[i].product_uom_qty # NaN

\* the stock.quant records of product p dated at or before day d
QuantsUpTo(p, d) ==
    {j \in 1..Len(quants) :
        quants[j].product_id = p /\ ToDate(quants[j].date) <= d}

\* C5: after the asof-join, the quantity joined to a sales row is that of a
\* stock.quant record of the same product whose date is the greatest one at
\* or before the row's date, and is missing when there is no such record; no
\* record of another product or of a later date is used.
C5_AsofJoinBackward ==
    "inventory" \in done =>
        \A i \in 1..Len(df) :
            LET E == QuantsUpTo(df[i].product_id, df[i].date)
            IN  IF E = {}
                THEN df[i].quantity = NaN
                ELSE \E j \in E :
                        /\ \A k \in E : ToDate(quants[k].date) <= ToDate(quants[j].date)
                        /\ df[i].quantity = quants[j].quantity

\* a joined row whose product also has a later-dated record, beside a row
\* with nothing to join
C5_Witness ==
    /\ pc = "prepared"
    /\ \E i \in 1..Len(df) :
          /\ df[i].quantity # NaN
          /\ \E j \in 1..Len(quants) :
                /\ quants[j].product_id = df[i].product_id
                /\ ToDate(quants[j].date) > df[i].date
                /\ quants[j].quantity # df[i].quantity
    /\ \E i \in 1..Len(df) : df[i].quantity = NaN

\* the rows of df of the product of row i dated in (date - w, date]
Trailing(i, w) ==
    {j \in 1..Len(df) : /\ df[j].product_id = df[i].product_id
                        /\ df[j].date <= df[i].date
                        /\ df[j].date > df[i].date - w}

\* m is the mean of row i's quantity together with same-product rows of the
\* trailing window: all those dated before row i, and some of those of the
\* same date
MeanOfTrailing(m, i, w) ==
    LET before == {j \in Trailing(i, w) : df[j].date < df[i].date}
        onDate == Trailing(i, w) \ (before \cup {i})
    IN  \E T \in SUBSET onDate :
            LET S == before \cup {i} \cup T
            IN  m = <<SumOver([j \in S |-> df[j].product_uom_qty], S),
                      Cardinality(S)>>

C6_RowsRolled ==
    "rolling" \in done =>
        \A i \in 1..Len(df) :
            /\ MeanOfTrailing(df[i].avg_sales_7d, i, 7)
            /\ Len(df[i].sales_growth_30d) = 4
            /\ MeanOfTrailing(SubSeq(df[i].sales_growth_30d, 1, 2), i, 30)
            /\ MeanOfTrailing(SubSeq(df[i].sales_growth_30d, 3, 4), i, 60)

C6_OneValuePerRow ==
    pc = "rolling" /\ pc' = "inventory" =>
        /\ Len(df') = Len(df)
        /\ {df'[i].idx : i \in 1..Len(df')} = {df[i].idx : i \in 1..Len(df)}

\* C6: every row's 7-day average and 30-day/60-day growth ratio are means
\* over rows of the same product dated at or before the row and inside the
\* trailing window, and the rolling stage gives each input row one value.
C6_RollingSameProductNoLookahead ==
    [](C6_RowsRolled) /\ [][C6_OneValuePerRow]_vars

\* a row with a later row of its product inside 7 days and a row of another
\* product on its date, and a row averaged with an earlier one
C6_Witness ==
    /\ pc = "inventory"
    /\ \E i, j, k \in 1..Len(df) :
          /\ df[j].product_id = df[i].product_id
          /\ df[j].date > df[i].date
          /\ df[j].date < df[i].date + 7
          /\ df[j].avg_sales_7d[2] = 2
          /\ df[i].avg_sales_7d[2] = 1
          /\ df[k].product_id # df[i].product_id
          /\ df[k].date = df[i].date

\* ---------------------------------------------- claims on the automations
\* the reorder rules and the notes of product p
RulesFor(rules, p) == {i \in 1..Len(rules) : rules[i].product_id = p}
NotesFor(p) == {i \in 1..Len(messages) : messages[i].product_id = p}

\* C2: for every product with an entry in predictions, a reorder rule is
\* issued iff current stock < predicted demand, and the tag is applied iff
\* predicted demand > current stock x 1.5, each decided on its own.
C2_ReorderAndTagIndependent ==
    \A p \in DOMAIN predictions :
        /\ "alerts" \in done =>
              /\ RulesFor(orderpoints, p) # {} <=> qty_available[p] < predictions[p]
              /\ NotesFor(p) # {} <=> qty_available[p] < predictions[p]
        /\ "flag" \in done =>
              (category_id[p] # {} <=> 2 * predictions[p] > 3 * qty_available[p])

\* both calls are through and four predicted products show the four cases:
\* rule and tag, rule only, tag only, neither
C2_Witness ==
    /\ pc = "returned"
    /\ \E a, b, c, d \in DOMAIN predictions :
          /\ RulesFor(orderpoints, a) # {} /\ category_id[a] # {}
          /\ RulesFor(orderpoints, b) # {} /\ category_id[b] = {}
          /\ RulesFor(orderpoints, c) = {} /\ category_id[c] # {}
          /\ RulesFor(orderpoints, d) = {} /\ category_id[d] = {}

\* C3: for a catalog product with no entry in predictions, whatever its
\* on-hand quantity, no reorder rule is created, no note is posted and no
\* tag is applied.
C3_NoActionWithoutPrediction ==
    \A p \in DOMAIN qty_available \ DOMAIN predictions :
        /\ RulesFor(orderpoints, p) = {}
        /\ NotesFor(p) = {}
        /\ category_id[p] = {}

\* ------------------------------------------------- claims on the full run
AllStages == {"extract", "clean", "time", "rolling", "inventory", "train",
              "predict", "alerts", "flag"}

Exceptions == {"AccessError", "KeyError", "ValueError", "MergeError",
               "IndexError", "ValidationError"}

\* C1: generate_and_act_on_predictions never raises to its caller: an
\* exception of any stage is caught, every call in progress can go on, and
\* a call that has ended has returned the success string if every stage
\* completed and a failure string naming the exception otherwise.
C1_NeverRaises ==
    /\ pc = "raised" => ENABLED Catch
    /\ pc # "idle" => ENABLED Next
    /\ (pc = "idle" /\ runs > 0) =>
          /\ result \in {Success} \cup {ErrorString(e) : e \in Exceptions}
          /\ result = Success <=> (exc = "none" /\ done = AllStages)
          /\ result # Success => (exc # "none" /\ result = ErrorString(exc))

\* a call has returned a failure string after its reorder stage had
\* completed and written
C1_Witness ==
    /\ pc = "idle"
    /\ runs > 0
    /\ result = ErrorString("AccessError")
    /\ "alerts" \in done
    /\ orderpoints # pre.orderpoints

\* C7: every value stored in the PredictionMap is >= 0.
C7_PredictionsNonNegative ==
    \A p \in DOMAIN predictions : predictions[p] >= 0

C8_Step ==
    (pc = "predict" /\ todo # <<>> /\ RowsOf(df, Head(todo)) = <<>>) =>
        (pc' = "predict" /\ todo' = Tail(todo) /\ predictions' = predictions)

C8_Map ==
    ("predict" \in done /\ pc # "idle") =>
        /\ DOMAIN predictions =
              {p \in DOMAIN qty_available : RowsOf(df, p) # <<>>}
        /\ \A p \in DOMAIN qty_available \ DOMAIN predictions :
              /\ RulesFor(orderpoints, p) = RulesFor(pre.orderpoints, p)
              /\ category_id[p] = pre.category_id[p]

\* C8: a catalog product with no feature row is skipped: the prediction
\* loop goes on to the next product without an entry for it, the map holds
\* an entry for exactly the products that have a feature row, and nothing is
\* written for the skipped product.
C8_NoHistoryProductSkipped == [](C8_Map) /\ [][C8_Step]_vars

\* C9: a call that returned a failure string has left the write sink as it
\* was when the call began.
C9_FailedRunLeavesNoWrites ==
    (pc = "idle" /\ runs > 0 /\ result # Success) => Sink = pre

\* the call is about to return the success string
Succeeding == pc = "flag" /\ todo = <<>>

C10_ReorderPart ==
    Succeeding =>
        \A p \in DOMAIN qty_available :
            LET old == RulesFor(pre.orderpoints, p)
                new == RulesFor(orderpoints, p) \ old
            IN  IF qty_available[p] < Get(predictions, p)
                THEN /\ Cardinality(new) = 1
                     /\ \A i \in new :
                           /\ orderpoints[i].product_min_qty = Get(predictions, p) * 12
                           /\ orderpoints[i].product_max_qty = Get(predictions, p) * 15
                     /\ SubSeq(orderpoints, 1, Len(pre.orderpoints)) = pre.orderpoints
                ELSE new = {}

C10_TagPart ==
    Succeeding =>
        \A p \in DOMAIN qty_available :
            2 * Get(predictions, p) > 3 * qty_available[p] =>
                Cardinality(category_id[p]) = 1

\* C10: a run in which a product's stock is below its predicted demand adds
\* exactly one reorder rule for it (min = prediction x 1.2, max = prediction
\* x 1.5) to those already there, and a product for which the tag condition
\* holds carries the opportunity tag exactly once, however many runs.
C10_RulesAccumulateTagOnce == C10_ReorderPart /\ C10_TagPart

====
